---- MODULE Spec2Model ----
(***************************************************************************)
(* Model of package lazyerrors (github.com/p-alexander/lazyerrors): error  *)
(* handling by panic/recover.  A Signal (TryWrapErrorFunc, TryErrorFunc)   *)
(* turns a non-nil error into a panic; a Boundary (one of the four Catch   *)
(* functions), installed with defer, recovers the panic at scope exit and  *)
(* stores a failure through its *error argument, or panics again.          *)
(*                                                                         *)
(* Go values are encoded as sequences of strings whose head is the dynamic *)
(* type: the nil interface is << >>.  Struct fields follow the head, the   *)
(* embedded value comes last.  Pointer identity is structural equality.    *)
(* A panic payload is a value recover() reports as non-nil (since Go 1.21  *)
(* panic(nil) is delivered as a *runtime.PanicNilError, an error value).   *)
(***************************************************************************)
EXTENDS Naturals, Sequences, FiniteSets

\* ------------------------------------------------------------------ bounds
MaxDepth == 2      \* nested protected scopes on the goroutine's stack
MaxDefers == 2     \* deferred Boundaries pending on the stack
NumSlots == 1      \* distinct error variables a Boundary can point to
NumSites == 2      \* distinct source lines that call a Signal
MaxCalls == 3      \* protected scopes entered in one run
MaxWrap == 2       \* wrappers around a value built by hand
MaxAssign == 1     \* assignments to the package variables Try and Catch

\* ------------------------------------------------------------------ names
SlotNames == <<"err1", "err2", "err3", "err4">>
SiteNames == <<"a.go:10: ", "b.go:20: ", "c.go:30: ", "d.go:40: ">>
StackNames == <<"stack@1", "stack@2", "stack@3", "stack@4">>

Nil == << >>
NilPtr == "nil"
Slots == {SlotNames[i] : i \in 1..NumSlots}
Ptrs == Slots \cup {NilPtr}
Sites == {SiteNames[i] : i \in 1..NumSites}

\* ------------------------------------------------------------------ values
\* ErrPanic = errors.New("panic")
ErrPanic == <<"errorString", "panic">>
\* errors.New("test error"), what a called function returns as its error
TestError == <<"errorString", "test error">>
\* panic("test panic"): a payload that is no error
TestPanic == <<"string", "test panic">>
\* a run-time panic such as index out of range: its payload is a runtime.Error
RuntimeError == <<"runtimeError", "index out of range">>

\* what f() can return to a Signal without having passed a Boundary
Failures == {TestError}
\* what f() can panic with, not through a Signal
RawPayloads == {TestPanic, RuntimeError}

ErrorTypes == {"errorString", "runtimeError", "fmtError",
               "LazyErrorWithCaller", "LazyErrorFromPanic"}

\* r.(error): the dynamic type of r implements error
IsError(r) == r # Nil /\ Head(r) \in ErrorTypes

\* the fields of the two wrapper structs
Caller(e) == e[2]
Err(e) == SubSeq(e, 3, Len(e))
Stack(e) == e[2]
Recovered(e) == SubSeq(e, 3, Len(e))

IsWithCaller(v) == v # Nil /\ Head(v) = "LazyErrorWithCaller"
IsFromPanic(v) == v # Nil /\ Head(v) = "LazyErrorFromPanic"

\* (*LazyErrorWithCaller).Unwrap
WithCallerUnwrap(e) == Err(e)

\* a faulty variant: gives what was recovered
FromPanicUnwrap_Recovered(e) == Recovered(e)

\* a faulty variant: has no cause
FromPanicUnwrap_Nil(e) == Nil

\* (*LazyErrorFromPanic).Unwrap
FromPanicUnwrap(e) == ErrPanic

\* Error() of an error, %v of any other value, as the pieces of the text
RECURSIVE Text(_)
Text(v) ==
    IF v = Nil THEN <<"<nil>">>
    ELSE IF Head(v) = "LazyErrorWithCaller" THEN <<Caller(v)>> \o Text(Err(v))
    ELSE IF Head(v) = "LazyErrorFromPanic"
         THEN <<"[">> \o Text(ErrPanic) \o <<" recovered]:\n">> \o Text(Recovered(v))
              \o <<"\n[stack]:\n", Stack(v)>>
    ELSE Tail(v)

\* a faulty variant: skips one frame too few and names the line in TryWrapErrorFunc
caller_OwnFrame(ok, site) == IF ok THEN "lazy_errors.go:134: " ELSE ""

\* caller(): runtime.Caller(3) is the line that called the Signal
caller(ok, site) == IF ok THEN site ELSE ""

\* NewErrorWithCaller
NewErrorWithCaller(err, site) == <<"LazyErrorWithCaller", caller(TRUE, site)>> \o err

\* NewErrorFromPanic
NewErrorFromPanic(recovered, stack) == <<"LazyErrorFromPanic", stack>> \o recovered

\* fmt.Errorf("panic: %v", r): only the text of r survives
PanicErrorf(r) == <<"fmtError", "panic: ">> \o Text(r)

\* errors.Unwrap: the Unwrap method where the type has one, else nil
ErrorsUnwrap(v) ==
    IF IsWithCaller(v) THEN WithCallerUnwrap(v)
    ELSE IF IsFromPanic(v) THEN FromPanicUnwrap(v)
    ELSE Nil

\* ------------------------------------------------------------------ Signals
\* A Signal is modelled by the payload it panics with; Nil: it returns normally.

\* a faulty variant: wraps whatever it is given
TryWrapErrorFunc_Rewrap(err, site) ==
    IF err # Nil THEN NewErrorWithCaller(err, site) ELSE Nil

\* TryWrapErrorFunc, called from source line `site`
TryWrapErrorFunc(err, site) ==
    IF err # Nil
    THEN IF IsFromPanic(err) \/ IsWithCaller(err)
         THEN err
         ELSE NewErrorWithCaller(err, site)
    ELSE Nil

\* a faulty variant: wraps the error as TryWrapErrorFunc does
TryErrorFunc_Wrap(err) ==
    IF err # Nil THEN TryWrapErrorFunc(err, "") ELSE Nil

\* TryErrorFunc
TryErrorFunc(err) ==
    IF err # Nil THEN err ELSE Nil

\* ------------------------------------------------------------------ Boundaries
\* A Boundary runs as a deferred call with pointer ep while payload r is in
\* flight (Nil: the scope exits normally, recover() returns nil).  Its outcome:
\* the error variables, the payload in flight afterwards (Nil: none) and
\* whether it assigned through ep.
Outcome(sl, p, w) == [slots |-> sl, panicking |-> p, wrote |-> w]

\* a faulty variant: absorbs every error
CatchLazyErrorFunc_AnyError(ep, r, sl) ==
    IF ep = NilPtr THEN Outcome(sl, r, FALSE)
    ELSE IF r # Nil
         THEN IF IsError(r) THEN Outcome([sl EXCEPT ![ep] = r], Nil, TRUE)
              ELSE Outcome(sl, r, FALSE)
         ELSE Outcome(sl, Nil, FALSE)

\* CatchLazyErrorFunc
CatchLazyErrorFunc(ep, r, sl) ==
    IF ep = NilPtr THEN Outcome(sl, r, FALSE)
    ELSE IF r # Nil
         THEN IF IsFromPanic(r) THEN Outcome([sl EXCEPT ![ep] = r], Nil, TRUE)
              ELSE IF IsWithCaller(r) THEN Outcome([sl EXCEPT ![ep] = r], Nil, TRUE)
              ELSE Outcome(sl, r, FALSE)
         ELSE Outcome(sl, Nil, FALSE)

\* a faulty variant: absorbs a payload that is no error, as CatchAllFunc does
CatchErrorFunc_All(ep, r, sl) ==
    IF ep = NilPtr THEN Outcome(sl, r, FALSE)
    ELSE IF r # Nil
         THEN IF IsError(r) THEN Outcome([sl EXCEPT ![ep] = r], Nil, TRUE)
              ELSE Outcome([sl EXCEPT ![ep] = PanicErrorf(r)], Nil, TRUE)
         ELSE Outcome(sl, Nil, FALSE)

\* a faulty variant: calls recover() before it tests the pointer
CatchErrorFunc_RecoverFirst(ep, r, sl) ==
    IF ep = NilPtr THEN Outcome(sl, Nil, FALSE)
    ELSE IF r # Nil
         THEN IF IsError(r) THEN Outcome([sl EXCEPT ![ep] = r], Nil, TRUE)
              ELSE Outcome(sl, r, FALSE)
         ELSE Outcome(sl, Nil, FALSE)

\* a faulty variant: panics again with the payload turned into an error
CatchErrorFunc_PanicWrapped(ep, r, sl) ==
    IF ep = NilPtr THEN Outcome(sl, r, FALSE)
    ELSE IF r # Nil
         THEN IF IsError(r) THEN Outcome([sl EXCEPT ![ep] = r], Nil, TRUE)
              ELSE Outcome(sl, PanicErrorf(r), FALSE)
         ELSE Outcome(sl, Nil, FALSE)

\* CatchErrorFunc
CatchErrorFunc(ep, r, sl) ==
    IF ep = NilPtr THEN Outcome(sl, r, FALSE)
    ELSE IF r # Nil
         THEN IF IsError(r) THEN Outcome([sl EXCEPT ![ep] = r], Nil, TRUE)
              ELSE Outcome(sl, r, FALSE)
         ELSE Outcome(sl, Nil, FALSE)

\* a faulty variant: panics again with a payload that is no error
CatchAllWithStackFunc_Narrow(ep, r, sl, stk) ==
    IF ep = NilPtr THEN Outcome(sl, r, FALSE)
    ELSE IF r # Nil
         THEN IF IsError(r) THEN Outcome([sl EXCEPT ![ep] = r], Nil, TRUE)
              ELSE Outcome(sl, r, FALSE)
         ELSE Outcome(sl, Nil, FALSE)

\* CatchAllWithStackFunc; stk is what debug.Stack() returns there
CatchAllWithStackFunc(ep, r, sl, stk) ==
    IF ep = NilPtr THEN Outcome(sl, r, FALSE)
    ELSE IF r # Nil
         THEN IF IsError(r) THEN Outcome([sl EXCEPT ![ep] = r], Nil, TRUE)
              ELSE Outcome([sl EXCEPT ![ep] = NewErrorFromPanic(r, stk)], Nil, TRUE)
         ELSE Outcome(sl, Nil, FALSE)

\* a faulty variant: does not test what recover() returned
CatchAllFunc_NoRecoverTest(ep, r, sl) ==
    IF ep = NilPtr THEN Outcome(sl, r, FALSE)
    ELSE IF IsError(r) THEN Outcome([sl EXCEPT ![ep] = r], Nil, TRUE)
         ELSE Outcome([sl EXCEPT ![ep] = PanicErrorf(r)], Nil, TRUE)

\* CatchAllFunc
CatchAllFunc(ep, r, sl) ==
    IF ep = NilPtr THEN Outcome(sl, r, FALSE)
    ELSE IF r # Nil
         THEN IF IsError(r) THEN Outcome([sl EXCEPT ![ep] = r], Nil, TRUE)
              ELSE Outcome([sl EXCEPT ![ep] = PanicErrorf(r)], Nil, TRUE)
         ELSE Outcome(sl, Nil, FALSE)

\* ------------------------------------------------------------------ state
VARIABLES
    stack,      \* the protected scopes on the goroutine's stack, innermost last
    slots,      \* the error variables Boundaries point to
    pc,         \* "running" a scope's body, "exiting" it (deferred calls run), "fatal"
    panicking,  \* the payload of the panic in flight, Nil when there is none
    writes,     \* history: assignments through a pointer, per error variable
    calls,      \* history: protected scopes entered so far
    last,       \* history: the Signal or Boundary that acted last
    built,      \* the error model on its own: a wrapper built and inspected
    bindings,   \* the package variables Try and Catch: the function each holds,
                \* and how many times the program has assigned to either
    body        \* history: what the innermost scope's body has done

vars == <<stack, slots, pc, panicking, writes, calls, last, built, bindings, body>>
dvars == <<bindings, body>>

\* var ( Catch = CatchAllWithStackFunc; Try = TryWrapErrorFunc )
Defaults == [Try |-> "TryWrapErrorFunc", Catch |-> "CatchAllWithStackFunc",
             assigned |-> 0]

CatchNames == {"CatchLazyErrorFunc", "CatchErrorFunc", "CatchAllWithStackFunc", "CatchAllFunc"}

\* a scope: its deferred Boundaries in order of the defer statements, and history:
\* sig is "nil" while all the scope has done is call Signals with nil,
\* dirty once an error variable has changed since the scope was entered,
\* absorbed once a Boundary of this scope has assigned an error variable
NewFrame == [defers |-> << >>, sig |-> "none", dirty |-> FALSE, absorbed |-> FALSE]

Depth == Len(stack)
Top == stack[Depth]
Front(q) == SubSeq(q, 1, Len(q) - 1)
RECURSIVE PendingDefers(_)
PendingDefers(q) == IF q = << >> THEN 0 ELSE Len(Head(q).defers) + PendingDefers(Tail(q))
\* history record: the operation, its pointer argument, the error it was given
\* or the payload it met, the source line of a Signal, and for a Boundary the
\* depth of its scope and its position among the scope's deferred calls
Did(op, ep, r, site, depth, pos) ==
    [op |-> op, ep |-> ep, r |-> r, site |-> site, depth |-> depth, pos |-> pos]

\* a value val made by constructor `by` from arg, and the cause errors.Unwrap
\* gave for it once it was asked
Built(by, arg, val, cause, unwrapped) ==
    [by |-> by, arg |-> arg, val |-> val, cause |-> cause, unwrapped |-> unwrapped]

\* history record: what the body of the innermost scope did (what: "none",
\* "nil", "err", "panic", or "other" once it has done more than one thing), the
\* error f returned or the payload f panicked with, the line of the call of
\* Try, the pointer given to the Boundary that runs first and what it pointed
\* to, and whether Try and Catch held their defaults for all of it
Body(what, v, site, ep, before, defaults) ==
    [what |-> what, v |-> v, site |-> site, ep |-> ep, before |-> before,
     defaults |-> defaults]
NoBody == Body("none", Nil, "", NilPtr, Nil, FALSE)

Init ==
    /\ bindings = Defaults
    /\ body = NoBody
    /\ stack = << >>
    /\ slots = [s \in Slots |-> Nil]
    /\ pc = "running"
    /\ panicking = Nil
    /\ writes = [s \in Slots |-> 0]
    /\ calls = 0
    /\ last = Did("none", NilPtr, Nil, "", 0, 0)
    /\ built = Built("none", Nil, Nil, Nil, FALSE)

\* a function with a protected scope is called
Enter ==
    /\ pc = "running"
    /\ Depth < MaxDepth
    /\ calls < MaxCalls
    /\ calls' = calls + 1
    /\ stack' = (IF Depth = 0 THEN stack ELSE [stack EXCEPT ![Depth].sig = "other"])
                \o <<NewFrame>>
    /\ UNCHANGED <<slots, pc, panicking, writes, last, built>>

Call == Enter /\ UNCHANGED dvars

\* defer catch(ep)
Defer(catch, ep) ==
    /\ pc = "running"
    /\ Depth > 0
    /\ PendingDefers(stack) < MaxDefers
    /\ stack' = [stack EXCEPT ![Depth].defers = Append(@, [catch |-> catch, ep |-> ep])]
    /\ UNCHANGED <<slots, pc, panicking, writes, calls, last, built, bindings, body>>

\* the scope's body after a Signal or a panic with payload p (Nil: no panic)
Raise(p, quiet) ==
    /\ panicking' = p
    /\ pc' = IF p = Nil THEN "running" ELSE "exiting"
    /\ stack' = [stack EXCEPT ![Depth].sig =
                    IF quiet /\ @ \in {"none", "nil"} THEN "nil" ELSE "other"]
    /\ UNCHANGED <<slots, writes, calls, built>>

\* the errors a scope can hand to a Signal: nil, what a callee returned, or
\* what an error variable holds
Args == {Nil} \cup Failures \cup {slots[s] : s \in Slots}

\* TryWrapErrorFunc(err) at source line site
TryWrap(err, site) ==
    /\ pc = "running"
    /\ Depth > 0
    /\ Raise(TryWrapErrorFunc(err, site), err = Nil)
    /\ last' = Did("TryWrapErrorFunc", NilPtr, err, site, Depth, 0)
    /\ UNCHANGED dvars

\* TryErrorFunc(err)
TryPlain(err) ==
    /\ pc = "running"
    /\ Depth > 0
    /\ Raise(TryErrorFunc(err), err = Nil)
    /\ last' = Did("TryErrorFunc", NilPtr, err, "", Depth, 0)
    /\ UNCHANGED dvars

\* the body panics by itself: panic(p), or a run-time fault
Panic(p) ==
    /\ pc = "running"
    /\ Depth > 0
    /\ Raise(p, FALSE)
    /\ last' = Did("panic", NilPtr, p, "", Depth, 0)
    /\ UNCHANGED dvars

\* the body returns
Return ==
    /\ pc = "running"
    /\ Depth > 0
    /\ pc' = "exiting"
    /\ UNCHANGED <<stack, slots, panicking, writes, calls, last, built, bindings, body>>

\* the innermost scope runs its most recently deferred call, with outcome res
Deferred(res) ==
    /\ slots' = res.slots
    /\ panicking' = res.panicking
    /\ writes' = IF res.wrote
                 THEN [writes EXCEPT ![Top.defers[Len(Top.defers)].ep] = @ + 1]
                 ELSE writes
    /\ stack' = [i \in 1..Depth |->
                    [defers |-> IF i = Depth THEN Front(stack[i].defers) ELSE stack[i].defers,
                     sig |-> stack[i].sig,
                     dirty |-> stack[i].dirty \/ res.slots # slots,
                     absorbed |-> stack[i].absorbed \/ (i = Depth /\ res.wrote)]]
    /\ last' = Did(Top.defers[Len(Top.defers)].catch, Top.defers[Len(Top.defers)].ep,
                   panicking, "", Depth, Len(Top.defers))
    /\ UNCHANGED <<pc, calls, built>>

Pending(catch) ==
    /\ pc = "exiting"
    /\ Depth > 0
    /\ Top.defers # << >>
    /\ Top.defers[Len(Top.defers)].catch = catch

NextEp == Top.defers[Len(Top.defers)].ep

RunCatchLazyErrorFunc ==
    /\ Pending("CatchLazyErrorFunc")
    /\ Deferred(CatchLazyErrorFunc(NextEp, panicking, slots))
    /\ UNCHANGED dvars

RunCatchErrorFunc ==
    /\ Pending("CatchErrorFunc")
    /\ Deferred(CatchErrorFunc(NextEp, panicking, slots))
    /\ UNCHANGED dvars

RunCatchAllWithStackFunc ==
    /\ Pending("CatchAllWithStackFunc")
    /\ Deferred(CatchAllWithStackFunc(NextEp, panicking, slots, StackNames[Depth]))
    /\ UNCHANGED dvars

RunCatchAllFunc ==
    /\ Pending("CatchAllFunc")
    /\ Deferred(CatchAllFunc(NextEp, panicking, slots))
    /\ UNCHANGED dvars

\* every deferred call of the scope has run: the scope returns to its caller, or
\* the panic goes on into the caller; with no caller left the goroutine dies
Leave ==
    /\ pc = "exiting"
    /\ Depth > 0
    /\ Top.defers = << >>
    /\ stack' = Front(stack)
    /\ pc' = IF panicking = Nil THEN "running"
             ELSE IF Depth = 1 THEN "fatal" ELSE "exiting"
    /\ UNCHANGED <<slots, panicking, writes, calls, last, built>>

Exit == Leave /\ UNCHANGED dvars

Next ==
    \/ Call
    \/ \E c \in CatchNames, ep \in Ptrs : Defer(c, ep)
    \/ \E err \in Args, site \in Sites : TryWrap(err, site)
    \/ \E err \in Args : TryPlain(err)
    \/ \E p \in RawPayloads : Panic(p)
    \/ Return
    \/ RunCatchLazyErrorFunc
    \/ RunCatchErrorFunc
    \/ RunCatchAllWithStackFunc
    \/ RunCatchAllFunc
    \/ Exit

Spec == Init /\ [][Next]_vars

\* ------------------------------------------------------------------ error model
\* The constructors and Unwrap methods on their own: a value is picked, wrapped
\* up to MaxWrap times by either constructor, and asked for its cause.
program == <<stack, slots, pc, panicking, writes, calls, last, bindings, body>>

\* any value a caller can hand to a constructor
Payloads == {TestError, ErrPanic, RuntimeError, TestPanic}

RECURSIVE Wraps(_)
Wraps(v) == IF IsWithCaller(v) \/ IsFromPanic(v) THEN 1 + Wraps(Err(v)) ELSE 0

InitErrors ==
    /\ bindings = Defaults
    /\ body = NoBody
    /\ stack = << >>
    /\ slots = [s \in Slots |-> Nil]
    /\ pc = "running"
    /\ panicking = Nil
    /\ writes = [s \in Slots |-> 0]
    /\ calls = 0
    /\ last = Did("none", NilPtr, Nil, "", 0, 0)
    /\ \E x \in Payloads : built = Built("none", Nil, x, Nil, FALSE)

\* NewErrorWithCaller(built.val) called below source line site
BuildWithCaller(site) ==
    /\ IsError(built.val)
    /\ Wraps(built.val) < MaxWrap
    /\ built' = Built("NewErrorWithCaller", built.val,
                      NewErrorWithCaller(built.val, site), Nil, FALSE)
    /\ UNCHANGED program

\* NewErrorFromPanic(built.val, stk)
BuildFromPanic(stk) ==
    /\ Wraps(built.val) < MaxWrap
    /\ built' = Built("NewErrorFromPanic", built.val,
                      NewErrorFromPanic(built.val, stk), Nil, FALSE)
    /\ UNCHANGED program

\* errors.Unwrap(built.val)
Unwrap ==
    /\ ~built.unwrapped
    /\ built' = [built EXCEPT !.cause = ErrorsUnwrap(built.val), !.unwrapped = TRUE]
    /\ UNCHANGED program

NextErrors ==
    \/ \E site \in Sites : BuildWithCaller(site)
    \/ \E i \in 1..MaxDepth : BuildFromPanic(StackNames[i])
    \/ Unwrap

SpecErrors == InitErrors /\ [][NextErrors]_vars

\* ------------------------------------------------------------------ defaults
\* Scopes written with the package variables: defer Catch(&err) and Try(f()),
\* where either variable may have been assigned another handler.
TryNames == {"TryWrapErrorFunc", "TryErrorFunc"}

\* Try = t
SetTry(t) ==
    /\ pc = "running"
    /\ bindings.assigned < MaxAssign
    /\ t # bindings.Try
    /\ bindings' = [bindings EXCEPT !.Try = t, !.assigned = @ + 1]
    /\ UNCHANGED <<stack, slots, pc, panicking, writes, calls, last, built, body>>

\* Catch = c
SetCatch(c) ==
    /\ pc = "running"
    /\ bindings.assigned < MaxAssign
    /\ c # bindings.Catch
    /\ bindings' = [bindings EXCEPT !.Catch = c, !.assigned = @ + 1]
    /\ UNCHANGED <<stack, slots, pc, panicking, writes, calls, last, built, body>>

DefaultCall == Enter /\ body' = NoBody /\ UNCHANGED bindings

\* defer Catch(ep): the function Catch holds now is the one deferred
DefaultDefer(ep) == Defer(bindings.Catch, ep)

\* every Boundary the scope has deferred is the default one, with an error variable
DefaultScope ==
    /\ bindings = Defaults
    /\ Top.defers # << >>
    /\ \A i \in 1..Len(Top.defers) :
            Top.defers[i].catch = Defaults.Catch /\ Top.defers[i].ep \in Slots

\* what body becomes when the scope's body does `what` with value v at line site
Noted(what, v, site) ==
    IF body.what = "none"
    THEN Body(what, v, site,
              IF Top.defers = << >> THEN NilPtr ELSE NextEp,
              IF Top.defers = << >> \/ NextEp = NilPtr THEN Nil ELSE slots[NextEp],
              DefaultScope)
    ELSE [body EXCEPT !.what = "other"]

\* Try(err) at source line site: the function Try holds now is called
DefaultTry(err, site) ==
    /\ pc = "running"
    /\ Depth > 0
    /\ Raise(IF bindings.Try = "TryWrapErrorFunc"
             THEN TryWrapErrorFunc(err, site)
             ELSE TryErrorFunc(err), err = Nil)
    /\ last' = Did(bindings.Try, NilPtr, err,
                   IF bindings.Try = "TryWrapErrorFunc" THEN site ELSE "", Depth, 0)
    /\ body' = Noted(IF err = Nil THEN "nil" ELSE "err", err, site)
    /\ UNCHANGED bindings

\* Try(f()) where f panics with p: Try is not reached
DefaultPanic(p) ==
    /\ pc = "running"
    /\ Depth > 0
    /\ Raise(p, FALSE)
    /\ last' = Did("panic", NilPtr, p, "", Depth, 0)
    /\ body' = Noted("panic", p, "")
    /\ UNCHANGED bindings

DefaultExit == Leave /\ body' = NoBody /\ UNCHANGED bindings

NextDefaults ==
    \/ \E t \in TryNames : SetTry(t)
    \/ \E c \in CatchNames : SetCatch(c)
    \/ DefaultCall
    \/ \E ep \in Ptrs : DefaultDefer(ep)
    \/ \E err \in Args, site \in Sites : DefaultTry(err, site)
    \/ \E p \in RawPayloads : DefaultPanic(p)
    \/ Return
    \/ RunCatchLazyErrorFunc
    \/ RunCatchErrorFunc
    \/ RunCatchAllWithStackFunc
    \/ RunCatchAllFunc
    \/ DefaultExit

SpecDefaults == Init /\ [][NextDefaults]_vars

\* ------------------------------------------------------------------ claims
Signals == {"TryWrapErrorFunc", "TryErrorFunc"}
IsLazy(v) == IsWithCaller(v) \/ IsFromPanic(v)
SlotValues == {slots[s] : s \in Slots}

\* C1: in a scope that has only called Signals with a nil error, no panic is in
\* flight and no error variable has changed since the scope was entered, also
\* after the scope's deferred Boundaries (of any variant) have run.
C1_NilSignalIsNoOp ==
    (Depth > 0 /\ Top.sig = "nil") =>
        /\ panicking = Nil
        /\ pc \in {"running", "exiting"}
        /\ ~Top.dirty

\* a Boundary pointing to a reused variable has run after a nil Signal
C1_Witness ==
    /\ Depth > 0
    /\ Top.sig = "nil"
    /\ last.op \in CatchNames
    /\ last.ep \in Slots
    /\ slots[last.ep] # Nil

\* C2: when CatchAllFunc or CatchAllWithStackFunc, given an error variable, has
\* met a panic, whatever its payload, no panic is in flight afterwards and the
\* variable holds a non-nil error.
C2_CatchAllAbsorbs ==
    (/\ last.op \in {"CatchAllFunc", "CatchAllWithStackFunc"}
     /\ last.ep \in Slots
     /\ last.r # Nil) =>
        /\ panicking = Nil
        /\ pc # "fatal"
        /\ IsError(slots[last.ep])

\* a catch-all Boundary has met a payload that is no error
C2_Witness ==
    /\ last.op \in {"CatchAllFunc", "CatchAllWithStackFunc"}
    /\ last.ep \in Slots
    /\ last.r # Nil
    /\ ~IsError(last.r)
    /\ IsError(slots[last.ep])

\* C3: TryWrapErrorFunc panics with an already wrapped error as it is, and with
\* any other error wrapped once with the line of this call; no error variable
\* or payload ever holds a wrapper around a wrapper, and a Boundary that absorbs
\* a wrapped payload stores that very value.
C3_WrappedOnce ==
    /\ (last.op = "TryWrapErrorFunc" /\ IsLazy(last.r)) => panicking = last.r
    /\ (last.op = "TryWrapErrorFunc" /\ last.r # Nil /\ ~IsLazy(last.r)) =>
            /\ IsWithCaller(panicking)
            /\ Caller(panicking) = last.site
    /\ \A v \in SlotValues \cup {panicking} : IsWithCaller(v) => ~IsLazy(Err(v))
    /\ (last.op \in CatchNames /\ last.ep \in Slots /\ IsLazy(last.r)) =>
            slots[last.ep] = last.r

\* a caller-wrapped error absorbed in an inner scope is raised again from
\* another line
C3_Witness ==
    /\ last.op = "TryWrapErrorFunc"
    /\ IsWithCaller(last.r)
    /\ Caller(last.r) # last.site
    /\ calls >= 2
    /\ Depth = 1

\* a deferred Boundary is about to run in the innermost scope
BoundaryPending == pc = "exiting" /\ Depth > 0 /\ Top.defers # << >>

\* C4: CatchErrorFunc, given an error variable and meeting a panic, absorbs it
\* exactly when the payload is an error: it then stores the payload and ends
\* the panic; otherwise it assigns nothing and panics again with the same
\* payload.  A panic that leaves the outermost scope ends the goroutine, for good.
C4_ErrorOnly ==
    [][/\ (Pending("CatchErrorFunc") /\ NextEp \in Slots /\ panicking # Nil) =>
            IF IsError(panicking)
            THEN panicking' = Nil /\ slots' = [slots EXCEPT ![NextEp] = panicking]
            ELSE panicking' = panicking /\ slots' = slots /\ writes' = writes
       /\ (pc = "exiting" /\ Depth = 1 /\ Top.defers = << >> /\ panicking # Nil) =>
            pc' = "fatal" /\ panicking' = panicking
       /\ pc = "fatal" => pc' = "fatal"
      ]_vars

\* CatchErrorFunc has met a payload that is no error and the goroutine has died of it
C4_Witness ==
    /\ pc = "fatal"
    /\ last.op = "CatchErrorFunc"
    /\ last.ep \in Slots
    /\ last.r # Nil
    /\ ~IsError(last.r)
    /\ panicking = last.r

\* C5: CatchLazyErrorFunc, given an error variable and meeting a panic, absorbs
\* it if and only if the payload is a LazyErrorWithCaller or a
\* LazyErrorFromPanic; with any other payload, a plain error included, it
\* assigns nothing and panics again with the same payload.  What
\* TryWrapErrorFunc panics with is always one of the two, so CatchLazyErrorFunc
\* absorbs it.
C5_LazyOnly ==
    [][/\ (Pending("CatchLazyErrorFunc") /\ NextEp \in Slots /\ panicking # Nil) =>
            IF IsWithCaller(panicking) \/ IsFromPanic(panicking)
            THEN panicking' = Nil /\ slots' = [slots EXCEPT ![NextEp] = panicking]
            ELSE panicking' = panicking /\ slots' = slots /\ writes' = writes
       /\ (last'.op = "TryWrapErrorFunc" /\ last'.r # Nil) => IsLazy(panicking')
       /\ (/\ Pending("CatchLazyErrorFunc")
           /\ NextEp \in Slots
           /\ last.op = "TryWrapErrorFunc"
           /\ last.r # Nil) =>
            panicking' = Nil /\ slots'[NextEp] = panicking
      ]_vars

\* CatchLazyErrorFunc has met a plain error and has panicked again with it
C5_Witness ==
    /\ last.op = "CatchLazyErrorFunc"
    /\ last.ep \in Slots
    /\ last.r = TestError
    /\ panicking = TestError

\* errors.Is(err, target), for targets compared by identity
RECURSIVE ErrorsIs(_, _)
ErrorsIs(err, target) ==
    IF ~IsError(err) THEN FALSE
    ELSE err = target \/ ErrorsIs(ErrorsUnwrap(err), target)

\* a Boundary given an error variable has absorbed a payload that is no error
AbsorbedPanicBy(catches) ==
    /\ last.op \in catches
    /\ last.ep \in Slots
    /\ last.r # Nil
    /\ ~IsError(last.r)
    /\ panicking = Nil

\* C6 as stated: whichever Boundary absorbed a payload that is no error, the
\* error it stored has ErrPanic in its chain of causes.
C6_Original ==
    AbsorbedPanicBy(CatchNames) => ErrorsIs(slots[last.ep], ErrPanic)

\* C6: the error CatchAllWithStackFunc stores for a payload that is no error is
\* a LazyErrorFromPanic whose cause is ErrPanic, whatever the payload; the
\* error CatchAllFunc stores for it has no cause and is not ErrPanic.
C6_Amended ==
    /\ AbsorbedPanicBy({"CatchAllWithStackFunc"}) =>
            /\ IsFromPanic(slots[last.ep])
            /\ ErrorsUnwrap(slots[last.ep]) = ErrPanic
            /\ ErrorsIs(slots[last.ep], ErrPanic)
    /\ AbsorbedPanicBy({"CatchAllFunc"}) =>
            /\ ErrorsUnwrap(slots[last.ep]) = Nil
            /\ ~ErrorsIs(slots[last.ep], ErrPanic)
    /\ ~AbsorbedPanicBy({"CatchErrorFunc", "CatchLazyErrorFunc"})

\* CatchAllWithStackFunc has absorbed panic("test panic")
C6_Witness ==
    /\ AbsorbedPanicBy({"CatchAllWithStackFunc"})
    /\ last.r = TestPanic
    /\ Recovered(slots[last.ep]) = TestPanic

\* C7 as stated: an error variable is assigned at most once.
C7_Original ==
    \A s \in Slots : writes[s] <= 1

\* C7: an error variable changes only in the step of a Boundary that was given
\* its address and absorbs a panic, once in that step and at most once in one
\* exit of a scope; nothing else assigns it.  (It is not single-assignment:
\* the absorbing Boundary of each scope that is given it assigns it again.)
C7_Amended ==
    [][\A s \in Slots :
        (slots'[s] # slots[s] \/ writes'[s] # writes[s]) =>
            /\ BoundaryPending
            /\ NextEp = s
            /\ last'.op \in CatchNames
            /\ panicking # Nil
            /\ panicking' = Nil
            /\ writes'[s] = writes[s] + 1
            /\ ~Top.absorbed
      ]_vars

\* an error variable has been assigned twice, by absorbing Boundaries
C7_Witness ==
    /\ \E s \in Slots : writes[s] >= 2
    /\ last.op \in CatchNames
    /\ last.r # Nil
    /\ panicking = Nil

\* C8: a Boundary of any variant that was given a nil pointer assigns nothing
\* and leaves the panic in flight, if any, as it is; it starts none.
C8_NilPointer ==
    [][(BoundaryPending /\ NextEp = NilPtr) =>
            /\ slots' = slots
            /\ writes' = writes
            /\ panicking' = panicking
            /\ pc' = pc
      ]_vars

\* a Boundary given a nil pointer has met a panic, which is still in flight
C8_Witness ==
    /\ last.op \in CatchNames
    /\ last.ep = NilPtr
    /\ last.r # Nil
    /\ panicking = last.r

\* C9: the Boundary that runs is the most recently deferred one of the innermost
\* scope, and no other scope's Boundaries run in that step; it meets the payload
\* in flight; afterwards the payload is the same or the panic has ended; with
\* no panic in flight a Boundary changes nothing; a Boundary that meets a panic
\* another Boundary met before is further out (or earlier deferred in the same
\* scope, the very next one) and meets the same payload; a scope is left only
\* when all its deferred calls have run.
C9_Nested ==
    [][/\ BoundaryPending =>
            /\ stack'[Depth].defers = Front(Top.defers)
            /\ \A i \in 1..(Depth - 1) : stack'[i].defers = stack[i].defers
            /\ last'.depth = Depth
            /\ last'.pos = Len(Top.defers)
            /\ last'.r = panicking
            /\ panicking' \in {panicking, Nil}
            /\ panicking = Nil => (panicking' = Nil /\ slots' = slots)
            /\ (last.op \in CatchNames /\ panicking # Nil) =>
                    /\ last.r = panicking
                    /\ \/ Depth < last.depth
                       \/ Depth = last.depth /\ Len(Top.defers) = last.pos - 1
       /\ (pc = "exiting" /\ Len(stack') < Depth) => Top.defers = << >>
      ]_vars

\* the Boundary of an inner scope has panicked again and the panic has reached
\* an outer scope with a Boundary of its own
C9_Witness ==
    /\ BoundaryPending
    /\ Depth = 1
    /\ NextEp \in Slots
    /\ panicking # Nil
    /\ last.op \in CatchNames
    /\ last.depth = 2
    /\ last.ep \in Slots
    /\ last.r = panicking

\* C10: errors.Unwrap of the value NewErrorFromPanic made from any payload X is
\* ErrPanic, and so not X (but for X being ErrPanic itself); errors.Unwrap of
\* the value NewErrorWithCaller made from error F is F.
C10_Unwrap ==
    built.unwrapped =>
        /\ built.by = "NewErrorFromPanic" =>
                /\ built.cause = ErrPanic
                /\ built.arg # ErrPanic => built.cause # built.arg
        /\ built.by = "NewErrorWithCaller" => built.cause = built.arg

\* the cause was taken of a LazyErrorFromPanic made from a payload that is an
\* error with a cause of its own
C10_Witness ==
    /\ built.unwrapped
    /\ built.by = "NewErrorFromPanic"
    /\ IsWithCaller(built.arg)
    /\ built.cause = ErrPanic

ErrorCatches == {"CatchErrorFunc", "CatchAllFunc", "CatchAllWithStackFunc"}

\* C12: TryErrorFunc panics with the very error it was given, and the nearest
\* Boundary, if it is CatchErrorFunc, CatchAllFunc or CatchAllWithStackFunc and
\* was given an error variable, ends the panic and leaves that error itself in
\* the variable.  These three store any error payload as it is; the two
\* catch-all ones store something else than the payload only when it is no error.
C12_PlainRoundTrip ==
    [][/\ (last'.op = "TryErrorFunc" /\ last'.r # Nil) => panicking' = last'.r
       /\ (/\ BoundaryPending
           /\ Top.defers[Len(Top.defers)].catch \in ErrorCatches
           /\ NextEp \in Slots
           /\ last.op = "TryErrorFunc"
           /\ last.r # Nil) =>
            /\ panicking' = Nil
            /\ slots'[NextEp] = last.r
       /\ (/\ BoundaryPending
           /\ Top.defers[Len(Top.defers)].catch \in ErrorCatches
           /\ NextEp \in Slots
           /\ panicking # Nil) =>
            /\ IsError(panicking) => slots'[NextEp] = panicking
            /\ slots'[NextEp] \notin {slots[NextEp], panicking} => ~IsError(panicking)
      ]_vars

\* errors.New("test error") went through TryErrorFunc and CatchErrorFunc and is
\* what the error variable holds
C12_Witness ==
    /\ last.op = "CatchErrorFunc"
    /\ last.ep \in Slots
    /\ last.r = TestError
    /\ slots[last.ep] = TestError
    /\ panicking = Nil

\* a scope whose body was Try(f()) and nothing else, under the defaults, has run
\* all its deferred calls
DefaultScopeDone ==
    /\ Depth > 0
    /\ pc = "exiting"
    /\ Top.defers = << >>
    /\ body.defaults
    /\ body.what \in {"nil", "err", "panic"}

\* C11: until the program assigns to them, Try is TryWrapErrorFunc and Catch is
\* CatchAllWithStackFunc.  A scope that did defer Catch(&err) and Try(f()) with
\* the two never assigned leaves
\* no panic in flight; err is what it was when f returned nil; when f returned
\* an error that is no wrapper, err is a LazyErrorWithCaller whose text is the
\* line of the call of Try followed by the text of that error and whose cause
\* is that error; when f panicked with a payload that is no error, err is a
\* LazyErrorFromPanic of that payload whose cause is ErrPanic.
C11_Defaults ==
    /\ bindings.assigned = 0 =>
        /\ bindings.Try = "TryWrapErrorFunc"
        /\ bindings.Catch = "CatchAllWithStackFunc"
    /\ DefaultScopeDone =>
        /\ panicking = Nil
        /\ body.what = "nil" => slots[body.ep] = body.before
        /\ (body.what = "err" /\ ~IsLazy(body.v)) =>
                /\ IsWithCaller(slots[body.ep])
                /\ Text(slots[body.ep]) = <<body.site>> \o Text(body.v)
                /\ ErrorsUnwrap(slots[body.ep]) = body.v
        /\ (body.what = "panic" /\ ~IsError(body.v)) =>
                /\ IsFromPanic(slots[body.ep])
                /\ Recovered(slots[body.ep]) = body.v
                /\ ErrorsUnwrap(slots[body.ep]) = ErrPanic

\* under the defaults f returned errors.New("test error") and err holds it
\* wrapped with the line of the call of Try
C11_Witness ==
    /\ DefaultScopeDone
    /\ body.what = "err"
    /\ body.v = TestError
    /\ Text(slots[body.ep]) = <<body.site, "test error">>

====
